---- MODULE Spec2Model ----
(***************************************************************************)
(* Model of project_euler/problem_101/sol1.py: the Gaussian-elimination    *)
(* solver `solve`, the polynomial interpolator `interpolate` built on it,  *)
(* and the scan-and-sum driver `solution`.                                 *)
(*                                                                         *)
(* Numbers are exact rationals <<numerator, denominator>>; the two         *)
(* roundings of the source (round(x, 10) in solve, round(x) in the         *)
(* interpolated function) are modelled digit by digit.  Lists are objects  *)
(* on a heap, as in Python: a matrix is a list of references to its rows.  *)
(* Indices are 0-based as in the source; TLA+ sequences are 1-based, so    *)
(* element i of a list l is l[i + 1].                                      *)
(***************************************************************************)
EXTENDS Integers, Sequences, FiniteSets, TLC

VARIABLES
    heap,        \* the list objects: heap[id] is the content of list id
    matrix,      \* solve's argument `matrix`: a list of row references
    vector,      \* solve's argument `vector`: a list of row references
    augmented,   \* solve's local `augmented`: a list of row references
    size,        \* solve's local `size`
    row,         \* solve's local `row`
    col,         \* solve's local `col`
    pc,          \* position in the running function
    err,         \* the exception raised, "" when none
    result,      \* solve's return value (a list of rounded decimals)
    skipped,     \* history: the zero-pivot branch (lines 84-86) was taken
    args0,       \* history: the contents of matrix and vector at the call
    y_list,      \* interpolate's argument
    interpolated,\* the function interpolate returned: its coeffs and size
    var,         \* the argument the returned function is applied to
    value,       \* what the returned function returned
    func,        \* solution's argument func: a polynomial, lowest power first
    order,       \* solution's argument order
    data_points, \* solution's local data_points
    polynomials, \* solution's local polynomials
    poly,        \* position of the for loop of line 208 in polynomials (from 1)
    x_val,       \* solution's local x_val
    ret,         \* solution's local ret
    fits         \* history: the values added to ret, in order

solveVars == <<heap, matrix, vector, augmented, size, row, col, pc, err,
               result, skipped, args0>>
interpVars == <<y_list, interpolated, var, value>>
solutionVars == <<func, order, data_points, polynomials, poly, x_val, ret,
                  fits>>

vars == <<solveVars, interpVars, solutionVars>>

(***************************************************************************)
(* Bounds of the model.                                                    *)
(***************************************************************************)
MaxEntry == 2      \* entries of 1x1 and 2x2 systems range over -MaxEntry..MaxEntry
MaxBit == 1        \* entries of 3x3 and of ragged systems range over 0..MaxBit

(***************************************************************************)
(* Exact rational arithmetic: Python's int/float operators with no         *)
(* floating-point error.                                                   *)
(***************************************************************************)
Abs(x) == IF x < 0 THEN -x ELSE x

RECURSIVE Gcd(_, _)
Gcd(a, b) == IF b = 0 THEN a ELSE Gcd(b, a % b)

Rat(n, d) ==
    LET s == IF d < 0 THEN -1 ELSE 1
        g == Gcd(Abs(n), Abs(d))
    IN  <<(s * n) \div g, (s * d) \div g>>

RInt(i) == <<i, 1>>
RZero == RInt(0)
RIsZero(x) == x[1] = 0
RSub(x, y) == Rat(x[1] * y[2] - y[1] * x[2], x[2] * y[2])
RAdd(x, y) == Rat(x[1] * y[2] + y[1] * x[2], x[2] * y[2])
RMul(x, y) == Rat(x[1] * y[1], x[2] * y[2])
RDiv(x, y) == Rat(x[1] * y[2], x[2] * y[1])
RAbs(x) == <<Abs(x[1]), x[2]>>
RLess(x, y) == x[1] * y[2] < y[1] * x[2]

(***************************************************************************)
(* round(x, 10) of solve's return (line 108): the decimal nearest to x     *)
(* with 10 fractional digits, ties to the even last digit.  The decimal    *)
(* <<i, hi, lo>> stands for i + hi / 10^5 + lo / 10^10 with hi and lo in   *)
(* 0..99999.                                                               *)
(***************************************************************************)
Limb == 100000

Round10(x) ==
    LET n  == x[1]
        d  == x[2]
        i  == n \div d
        r0 == n % d
        hi == (r0 * Limb) \div d
        r1 == (r0 * Limb) % d
        lo == (r1 * Limb) \div d
        r2 == (r1 * Limb) % d
        up == (2 * r2 > d) \/ (2 * r2 = d /\ lo % 2 = 1)
        lo2 == IF up THEN lo + 1 ELSE lo
        hi2 == IF lo2 = Limb THEN hi + 1 ELSE hi
    IN  <<IF hi2 = Limb THEN i + 1 ELSE i, hi2 % Limb, lo2 % Limb>>

DecOfInt(i) == <<i, 0, 0>>

(***************************************************************************)
(* solve, lines 62-75: size, the fresh augmented matrix, the copy loop.    *)
(***************************************************************************)
Min(S) == CHOOSE x \in S : \A y \in S : x <= y

\* AllocAugmented with the rows of the argument reused: augmented = matrix,
\* each row extended in place by one cell
AllocAliased(h, m, n) ==
    [heap      |-> [id \in 1..Len(h) |->
                       IF \E r \in 1..n : m[r] = id
                       THEN h[id] \o <<RZero>> ELSE h[id]],
     augmented |-> m]

\* line 63: size fresh rows of size + 1 zeros
AllocAugmented(h, m, n) ==
    [heap      |-> h \o [r \in 1..n |-> [c \in 1..(n + 1) |-> RZero]],
     augmented |-> [r \in 1..n |-> Len(h) + r]]

\* BadRows with a dimension check: any length other than size is refused
BadRowsStrict(h, m, v, n) ==
    {r \in 0..(n - 1) : \/ Len(h[m[r + 1]]) # n
                        \/ Len(v) # n
                        \/ Len(h[v[r + 1]]) # 1}

\* rows at which the copy loop (lines 71-75) indexes past the end of a list
BadRows(h, m, v, n) ==
    {r \in 0..(n - 1) : \/ Len(h[m[r + 1]]) < n
                        \/ Len(v) < r + 1
                        \/ Len(h[v[r + 1]]) < 1}

\* lines 71-75, up to the first IndexError if any
CopyIn(h, m, v, aug, n) ==
    LET bad  == BadRows(h, m, v, n)
        stop == IF bad = {} THEN n ELSE Min(bad)
        Filled(r) ==
            LET src  == h[m[r + 1]]
                last == IF r < stop THEN n + 1
                        ELSE IF Len(src) < n THEN Len(src) ELSE n
            IN  [c \in 1..Len(h[aug[r + 1]]) |->
                    IF c > last THEN h[aug[r + 1]][c]
                    ELSE IF c <= n THEN src[c]
                    ELSE h[v[r + 1]][1]]
    IN  [heap |-> [id \in 1..Len(h) |->
                      IF \E r \in 0..(n - 1) : r <= stop /\ aug[r + 1] = id
                      THEN Filled(CHOOSE r \in 0..(n - 1) : aug[r + 1] = id)
                      ELSE h[id]],
         err  |-> IF bad = {} THEN "" ELSE "IndexError"]

\* where control goes when the while loop of line 79 is left or not entered
AfterLoop(n, r, c) ==
    IF r < n /\ c < n THEN "elim"
    ELSE IF 1 < n THEN "back" ELSE "extract"

(***************************************************************************)
(* solve, lines 79-97: one iteration of the elimination loop.              *)
(***************************************************************************)
\* lines 81-83: max of the pairs (abs(augmented[row2][col]), row2)
PivotRange(r, c, n) == c..(n - 1)

PivotRow(h, aug, n, r, c) ==
    CHOOSE p \in PivotRange(r, c, n) : \A q \in PivotRange(r, c, n) :
        LET ap == RAbs(h[aug[p + 1]][c + 1])
            aq == RAbs(h[aug[q + 1]][c + 1])
        IN  RLess(aq, ap) \/ (aq = ap /\ q <= p)

\* line 88
SwapRows(aug, r, p) == [aug EXCEPT ![r + 1] = aug[p + 1], ![p + 1] = aug[r + 1]]

\* lines 90-94: rows below `r` lose their entry in column c
Eliminate(h, aug, n, r, c) ==
    LET piv == h[aug[r + 1]]
        NewRow(old) ==
            LET ratio == RDiv(old[c + 1], piv[c + 1])
            IN  [c2 \in 1..Len(old) |->
                    IF c2 - 1 = c THEN RZero
                    ELSE IF c2 - 1 \in (c + 1)..n
                    THEN RSub(old[c2], RMul(piv[c2], ratio))
                    ELSE old[c2]]
    IN  [id \in 1..Len(h) |->
            IF \E r2 \in (r + 1)..(n - 1) : aug[r2 + 1] = id
            THEN NewRow(h[id]) ELSE h[id]]

(***************************************************************************)
(* solve, lines 100-104: one iteration of the outer back-substitution loop *)
(***************************************************************************)
\* BackRange starting one column late: the entry above the pivot is kept
BackRangeLate(c, n) == (c + 1)..n

BackRange(c, n) == c..n

BackSubstitute(h, aug, n, c) ==
    LET piv == h[aug[c + 1]]
        NewRow(old) ==
            LET ratio == RDiv(old[c + 1], piv[c + 1])
            IN  [c2 \in 1..Len(old) |->
                    IF c2 - 1 \in BackRange(c, n)
                    THEN RSub(old[c2], RMul(piv[c2], ratio))
                    ELSE old[c2]]
    IN  [id \in 1..Len(h) |->
            IF \E r \in 0..(c - 1) : aug[r + 1] = id
            THEN NewRow(h[id]) ELSE h[id]]

\* Python raises ZeroDivisionError on x / 0, for ints and floats alike
DivFails(d) == RIsZero(d)

(***************************************************************************)
(* solve, lines 107-109: the quotients, rounded to 10 decimal places.      *)
(***************************************************************************)
\* Extracted without the division by the diagonal entry
ExtractedNoDivide(h, aug, n) ==
    [r \in 1..n |-> Round10(h[aug[r]][n + 1])]

Extracted(h, aug, n) ==
    [r \in 1..n |-> Round10(RDiv(h[aug[r]][n + 1], h[aug[r]][r]))]

(***************************************************************************)
(* solve as a step function on frames: a frame holds the heap and solve's  *)
(* locals.  The actions below and the calls made by interpolate use the    *)
(* same steps.                                                             *)
(***************************************************************************)
\* lines 62-77: the call up to the first test of the while loop
SolveStart(h, m, v) ==
    LET n == Len(m)
        a == AllocAugmented(h, m, n)
        c == CopyIn(a.heap, m, v, a.augmented, n)
    IN  [heap |-> c.heap, augmented |-> a.augmented, size |-> n,
         row |-> 0, col |-> IF c.err = "" /\ AfterLoop(n, 0, 0) = "back" THEN 1 ELSE 0,
         pc |-> IF c.err = "" THEN AfterLoop(n, 0, 0) ELSE "error",
         err |-> c.err, result |-> <<>>, skipped |-> FALSE]

\* lines 79-97: one iteration of the while loop
ElimStep(f) ==
    LET p == PivotRow(f.heap, f.augmented, f.size, f.row, f.col)
    IN  IF RIsZero(f.heap[f.augmented[p + 1]][f.col + 1])
        THEN LET nx == AfterLoop(f.size, f.row, f.col + 1)
             IN  [f EXCEPT !.col = IF nx = "back" THEN 1 ELSE f.col + 1,
                           !.pc = nx, !.skipped = TRUE]
        ELSE LET aug == SwapRows(f.augmented, f.row, p)
                 nx  == AfterLoop(f.size, f.row + 1, f.col + 1)
             IN  [f EXCEPT !.augmented = aug,
                           !.heap = Eliminate(f.heap, aug, f.size, f.row, f.col),
                           !.row = f.row + 1,
                           !.col = IF nx = "back" THEN 1 ELSE f.col + 1,
                           !.pc = nx]

\* lines 100-104: one iteration of the outer for loop, column f.col
BackStep(f) ==
    IF DivFails(f.heap[f.augmented[f.col + 1]][f.col + 1])
    THEN [f EXCEPT !.row = 0, !.pc = "error", !.err = "ZeroDivisionError"]
    ELSE [f EXCEPT !.heap = BackSubstitute(f.heap, f.augmented, f.size, f.col),
                   !.row = f.col - 1,
                   !.col = IF f.col + 1 < f.size THEN f.col + 1 ELSE f.col,
                   !.pc = IF f.col + 1 < f.size THEN "back" ELSE "extract"]

\* ExtractStep with a division that yields a not-a-number instead of raising
ExtractStepUnchecked(f) ==
    [f EXCEPT !.result =
                 [r \in 1..f.size |->
                     IF DivFails(f.heap[f.augmented[r]][r]) THEN "nan"
                     ELSE Round10(RDiv(f.heap[f.augmented[r]][f.size + 1],
                                       f.heap[f.augmented[r]][r]))],
              !.pc = "done"]

\* lines 107-109: the return
ExtractStep(f) ==
    IF \E r \in 1..f.size : DivFails(f.heap[f.augmented[r]][r])
    THEN [f EXCEPT !.pc = "error", !.err = "ZeroDivisionError"]
    ELSE [f EXCEPT !.result = Extracted(f.heap, f.augmented, f.size),
                   !.pc = "done"]

SolveStep(f) ==
    CASE f.pc = "elim"    -> ElimStep(f)
      [] f.pc = "back"    -> BackStep(f)
      [] f.pc = "extract" -> ExtractStep(f)

RECURSIVE RunSolve(_)
RunSolve(f) == IF f.pc \in {"done", "error"} THEN f ELSE RunSolve(SolveStep(f))

(***************************************************************************)
(* The arguments of a call: matrices and vectors as lists of lists on the  *)
(* heap, the rows of the matrix first.                                     *)
(***************************************************************************)
HeapOf(M, b) == M \o [i \in 1..Len(b) |-> <<b[i]>>]
RowRefs(M) == [i \in 1..Len(M) |-> i]
VecRefs(M, b) == [i \in 1..Len(b) |-> Len(M) + i]

\* the integers of E as numbers of the model
Ints(E) == {RInt(e) : e \in E}

\* lists of any length in L over E
Lists(L, E) == UNION {[1..k -> Ints(E)] : k \in L}

\* the contents of the argument lists
ArgValues == [matrix |-> [i \in 1..Len(matrix) |-> heap[matrix[i]]],
              vector |-> [i \in 1..Len(vector) |-> heap[vector[i]]]]

Frame == [heap |-> heap, augmented |-> augmented, size |-> size, row |-> row,
          col |-> col, pc |-> pc, err |-> err, result |-> result,
          skipped |-> skipped]

Install(f) ==
    /\ heap' = f.heap
    /\ augmented' = f.augmented
    /\ size' = f.size
    /\ row' = f.row
    /\ col' = f.col
    /\ pc' = f.pc
    /\ err' = f.err
    /\ result' = f.result
    /\ skipped' = f.skipped

\* no call of solve, of interpolate, of solution is in progress
NoSolve ==
    /\ heap = <<>>
    /\ matrix = <<>>
    /\ vector = <<>>
    /\ augmented = <<>>
    /\ size = 0
    /\ row = 0
    /\ col = 0
    /\ result = <<>>
    /\ skipped = FALSE
    /\ args0 = [matrix |-> <<>>, vector |-> <<>>]

NoInterpolate ==
    /\ y_list = <<>>
    /\ interpolated = [coeffs |-> <<>>, size |-> 0]
    /\ var = 0
    /\ value = 0

NoSolution ==
    /\ func = <<>>
    /\ order = 0
    /\ data_points = <<>>
    /\ polynomials = <<>>
    /\ poly = 0
    /\ x_val = 0
    /\ ret = 0
    /\ fits = <<>>

\* the state at the call solve(M, b)
Called(M, b) ==
    /\ NoInterpolate
    /\ NoSolution
    /\ heap = HeapOf(M, b)
    /\ matrix = RowRefs(M)
    /\ vector = VecRefs(M, b)
    /\ augmented = <<>>
    /\ size = 0
    /\ row = 0
    /\ col = 0
    /\ pc = "call"
    /\ err = ""
    /\ result = <<>>
    /\ skipped = FALSE
    /\ args0 = [matrix |-> M, vector |-> [i \in 1..Len(b) |-> <<b[i]>>]]

\* 1 x 1 and 2 x 2 systems with entries of either sign
InitSmall ==
    \E n \in 1..2 :
        \E M \in [1..n -> [1..n -> Ints((-MaxEntry)..MaxEntry)]],
           b \in [1..n -> Ints(0..MaxEntry)] : Called(M, b)

\* 3 x 3 systems with small entries and the right-hand side 1, 2, 3
InitCubic ==
    \E M \in [1..3 -> [1..3 -> Ints(0..MaxBit)]] :
        Called(M, [i \in 1..3 |-> RInt(i)])

\* n rows and a vector whose lengths are each off by at most one
InitRagged ==
    \E n \in 1..2 :
        \E M \in [1..n -> Lists((n - 1)..(n + 1), 0..MaxBit)],
           b \in Lists((n - 1)..(n + 1), 1..2) : Called(M, b)

Init == InitSmall \/ InitCubic \/ InitRagged

Build ==
    /\ pc = "call"
    /\ \E f \in {SolveStart(heap, matrix, vector)} : Install(f)
    /\ UNCHANGED <<matrix, vector, args0, interpVars, solutionVars>>

Elim ==
    /\ pc = "elim"
    /\ \E f \in {ElimStep(Frame)} : Install(f)
    /\ UNCHANGED <<matrix, vector, args0, interpVars, solutionVars>>

Back ==
    /\ pc = "back"
    /\ \E f \in {BackStep(Frame)} : Install(f)
    /\ UNCHANGED <<matrix, vector, args0, interpVars, solutionVars>>

Extract ==
    /\ pc = "extract"
    /\ \E f \in {ExtractStep(Frame)} : Install(f)
    /\ UNCHANGED <<matrix, vector, args0, interpVars, solutionVars>>

Next == Build \/ Elim \/ Back \/ Extract

Spec == Init /\ [][Next]_vars

(***************************************************************************)
(* interpolate, lines 129-160.                                             *)
(***************************************************************************)
MaxLen == 4        \* sample lists hold 1..MaxLen values
MaxSample == 2     \* free sample values range over -MaxSample..MaxSample
MaxVar == 6        \* the returned function is applied to -1..MaxVar

RECURSIVE Pow(_, _)
Pow(b, e) == IF e = 0 THEN 1 ELSE b * Pow(b, e - 1)

\* VanderEntry with the sample points numbered from 0 instead of 1
VanderEntryFromZero(x, c, n) == Pow(x, n - c - 1)

\* line 139: matrix[x_val][col]
VanderEntry(x, c, n) == Pow(x + 1, n - c - 1)

\* lines 130-140
InterpMatrix(y) ==
    [i \in 1..Len(y) |->
        [j \in 1..Len(y) |-> RInt(VanderEntry(i - 1, j - 1, Len(y)))]]
InterpVector(y) == [i \in 1..Len(y) |-> RInt(y[i])]

\* lines 129-142 and 160: the returned function holds coeffs and size
Interpolate(y) ==
    LET M == InterpMatrix(y)
        b == InterpVector(y)
        f == RunSolve(SolveStart(HeapOf(M, b), RowRefs(M), VecRefs(M, b)))
    IN  [err |-> f.err, coeffs |-> f.result, size |-> Len(y)]

\* round(x) of line 156 on a decimal of solve: the nearest integer, ties to
\* the even one
RoundInt(d) ==
    IF d[2] * 2 > Limb \/ (d[2] * 2 = Limb /\ d[3] > 0) THEN d[1] + 1
    ELSE IF d[2] * 2 = Limb /\ d[3] = 0 /\ d[1] % 2 = 1 THEN d[1] + 1
    ELSE d[1]

\* EvalExponent one too high
EvalExponentHigh(n, x) == n - x

\* line 156: the power of var that multiplies coeffs[x_val]
EvalExponent(n, x) == n - x - 1

\* lines 155-158: interpolated_func(v) for the returned function p
InterpolatedFunc(p, v) ==
    LET S[x \in 0..p.size] ==
            IF x = 0 THEN 0
            ELSE S[x - 1] + RoundInt(p.coeffs[x]) * Pow(v, EvalExponent(p.size, x - 1))
    IN  S[p.size]

\* the state at the call interpolate(y)
InterpolateCalled(y) ==
    /\ NoSolve
    /\ NoSolution
    /\ y_list = y
    /\ interpolated = [coeffs |-> <<>>, size |-> 0]
    /\ var = 0
    /\ value = 0
    /\ pc = "interpolate"
    /\ err = ""

\* any list of small samples
InitSamples ==
    \E n \in 1..MaxLen :
        \E y \in [1..n -> (-MaxSample)..MaxSample] : InterpolateCalled(y)

\* the first values of the powers 1, n, n^2, n^3
InitPowers ==
    \E n \in 1..MaxLen, e \in 0..3 :
        InterpolateCalled([i \in 1..n |-> Pow(i, e)])

InitInterpolate == InitSamples \/ InitPowers

\* lines 129-160: interpolate(y_list) returns, or the error of solve goes up
InterpolateReturns ==
    /\ pc = "interpolate"
    /\ \E p \in {Interpolate(y_list)} :
           /\ err' = p.err
           /\ pc' = IF p.err = "" THEN "interpolated" ELSE "error"
           /\ interpolated' = [coeffs |-> p.coeffs, size |-> p.size]
    /\ UNCHANGED <<heap, matrix, vector, augmented, size, row, col, result,
                   skipped, args0, y_list, var, value, solutionVars>>

\* lines 155-158: the returned function is applied to an integer
Apply ==
    /\ pc = "interpolated"
    /\ \E v \in (-1)..MaxVar :
          /\ var' = v
          /\ value' = InterpolatedFunc(interpolated, v)
    /\ pc' = "applied"
    /\ UNCHANGED <<heap, matrix, vector, augmented, size, row, col, result,
                   skipped, args0, err, y_list, interpolated, solutionVars>>

NextInterpolate == InterpolateReturns \/ Apply

SpecInterpolate == InitInterpolate /\ [][NextInterpolate]_vars

(***************************************************************************)
(* solution, lines 198-215.  The argument func is an integer polynomial,   *)
(* given by its coefficients, that of the lowest power first.              *)
(***************************************************************************)
MaxDeg == 3        \* func has degree at most MaxDeg
MaxCoef == 1       \* the coefficients of func range over -MaxCoef..MaxCoef
MaxOrder == 4      \* order ranges over 1..MaxOrder
MaxScan == 8       \* the scan of line 210 is followed up to x_val = MaxScan

\* func(x)
FuncAt(f, x) ==
    LET S[i \in 0..Len(f)] ==
            IF i = 0 THEN 0 ELSE S[i - 1] + f[i] * Pow(x, i - 1)
    IN  S[Len(f)]

\* line 198
DataPoints(f, n) == [x \in 1..n |-> FuncAt(f, x)]

\* Prefix one entry short: data_points[:max_coeff - 1]
PrefixShort(d, k) == SubSeq(d, 1, k - 1)

\* line 201: data_points[:max_coeff]
Prefix(d, k) == SubSeq(d, 1, k)

\* lines 200-202
Polynomials(d, n) == [k \in 1..n |-> Interpolate(Prefix(d, k))]

\* line 210: the test of the while loop
ScanContinues(f, p, x) == FuncAt(f, x) = InterpolatedFunc(p, x)

\* FitTerm taken from func instead of the polynomial
FitTermOfFunc(f, p, x) == FuncAt(f, x)

\* line 213: the value added to ret
FitTerm(f, p, x) == InterpolatedFunc(p, x)

\* the state at the call solution(f, n)
InitSolution ==
    \E f \in [1..(MaxDeg + 1) -> (-MaxCoef)..MaxCoef], n \in 1..MaxOrder :
        /\ NoSolve
        /\ NoInterpolate
        /\ func = f
        /\ order = n
        /\ data_points = <<>>
        /\ polynomials = <<>>
        /\ poly = 0
        /\ x_val = 0
        /\ ret = 0
        /\ fits = <<>>
        /\ pc = "solution"
        /\ err = ""

\* lines 198-209: the lists are built and the first scan is set up
SolutionStart ==
    /\ pc = "solution"
    /\ \E d \in {DataPoints(func, order)} : \E ps \in {Polynomials(d, order)} :
       LET failed == {k \in 1..order : ps[k].err # ""}
       IN  /\ data_points' = d
           /\ IF failed = {}
              THEN /\ polynomials' = [k \in 1..order |->
                                         [coeffs |-> ps[k].coeffs, size |-> ps[k].size]]
                   /\ poly' = 1
                   /\ x_val' = 1
                   /\ pc' = "scan"
                   /\ err' = ""
              ELSE /\ polynomials' = <<>>
                   /\ poly' = 0
                   /\ x_val' = 0
                   /\ pc' = "error"
                   /\ err' = ps[Min(failed)].err
    /\ UNCHANGED <<heap, matrix, vector, augmented, size, row, col, result,
                   skipped, args0, interpVars, func, order, ret, fits>>

\* lines 210-211: one iteration of the while loop
Scan ==
    /\ pc = "scan"
    /\ ScanContinues(func, polynomials[poly], x_val)
    /\ x_val < MaxScan
    /\ x_val' = x_val + 1
    /\ UNCHANGED <<solveVars, interpVars, func, order, data_points,
                   polynomials, poly, ret, fits>>

\* lines 213, 208-209 and 215: the while loop is left, ret grows, and the
\* next polynomial is taken or solution returns
Accumulate ==
    /\ pc = "scan"
    /\ ~ScanContinues(func, polynomials[poly], x_val)
    /\ ret' = ret + FitTerm(func, polynomials[poly], x_val)
    /\ fits' = Append(fits, FitTerm(func, polynomials[poly], x_val))
    /\ IF poly < Len(polynomials)
       THEN /\ poly' = poly + 1
            /\ x_val' = 1
            /\ pc' = "scan"
       ELSE /\ pc' = "returned"
            /\ UNCHANGED <<poly, x_val>>
    /\ UNCHANGED <<heap, matrix, vector, augmented, size, row, col, result,
                   skipped, args0, err, interpVars, func, order, data_points,
                   polynomials>>

NextSolution == SolutionStart \/ Scan \/ Accumulate

SpecSolution == InitSolution /\ [][NextSolution]_vars

\* solution runs on: a step that can be taken is taken.  SolutionStart is
\* the one step of the states with pc = "solution" and can be taken in each
\* of them, so weak fairness of it is that pc does not stay "solution".
SpecSolutionLive ==
    /\ SpecSolution
    /\ []<>(pc # "solution")
    /\ WF_vars(Scan)
    /\ WF_vars(Accumulate)

(***************************************************************************)
(* Reference notions the properties are stated with: none of them is used  *)
(* by the model of the code above.                                         *)
(***************************************************************************)
\* the call's arguments as integer tables
ArgMatrix == [i \in 1..Len(args0.matrix) |->
                 [j \in 1..Len(args0.matrix[i]) |-> args0.matrix[i][j][1]]]
ArgVector == [i \in 1..Len(args0.vector) |-> args0.vector[i][1][1]]
ArgSize == Len(args0.matrix)

\* the matrix is n x n and the vector has n entries
WellFormed ==
    /\ \A i \in 1..ArgSize : Len(args0.matrix[i]) = ArgSize
    /\ Len(args0.vector) = ArgSize

\* determinant by expansion along the first row
RECURSIVE Det(_)
Det(M) ==
    IF Len(M) = 1 THEN M[1][1]
    ELSE LET Minor(j) == [i \in 1..(Len(M) - 1) |->
                             [k \in 1..(Len(M) - 1) |->
                                 M[i + 1][IF k < j THEN k ELSE k + 1]]]
             Sign(j) == IF j % 2 = 1 THEN 1 ELSE -1
             Term[j \in 0..Len(M)] ==
                 IF j = 0 THEN 0
                 ELSE Term[j - 1] + Sign(j) * M[1][j] * Det(Minor(j))
         IN  Term[Len(M)]

\* M with column j replaced by b
WithColumn(M, j, b) ==
    [i \in 1..Len(M) |-> [k \in 1..Len(M) |-> IF k = j THEN b[i] ELSE M[i][k]]]

\* Cramer's rule: component j of the solution of M x = b
Cramer(M, b, j) == Rat(Det(WithColumn(M, j, b)), Det(M))

Invertible == WellFormed /\ Det(ArgMatrix) # 0
Singular == WellFormed /\ Det(ArgMatrix) = 0

\* Cramer's rule gives the solution of M x = b: row i of M applied to the
\* numerators Det(WithColumn(M, j, b)) is b[i] times Det(M)
CramerSolves(M, b) ==
    \A i \in 1..Len(M) :
        LET S[j \in 0..Len(M)] ==
                IF j = 0 THEN 0
                ELSE S[j - 1] + M[i][j] * Det(WithColumn(M, j, b))
        IN  S[Len(M)] = b[i] * Det(M)

\* the decimal d = <<i, hi, lo>> is within half a unit of the 10th place of x
NearestDecimal(d, x) ==
    LET t0 == x[1] - d[1] * x[2]
        t1 == t0 * Limb - d[2] * x[2]
        t2 == t1 * Limb - d[3] * x[2]
    IN  /\ d[2] \in 0..(Limb - 1)
        /\ d[3] \in 0..(Limb - 1)
        /\ Abs(t0) <= x[2]
        /\ Abs(t1) <= x[2]
        /\ 2 * Abs(t2) <= x[2]

\* M d = b for a vector d of decimals, with exact carries
DecimalSolves(M, b, d) ==
    \A i \in 1..Len(M) :
        LET Dot(k) ==
                LET S[j \in 0..Len(M)] ==
                        IF j = 0 THEN 0 ELSE S[j - 1] + M[i][j] * d[j][k]
                IN  S[Len(M)]
            lo == Dot(3)
            hi == Dot(2) + (lo \div Limb)
        IN  /\ lo % Limb = 0
            /\ hi % Limb = 0
            /\ Dot(1) + (hi \div Limb) = b[i]

IsIdentity(M) ==
    \A i, j \in 1..Len(M) : M[i][j] = IF i = j THEN 1 ELSE 0

C6_SingularNeverReturns ==
    /\ skipped => (pc # "done" /\ result = <<>>)
    /\ (Singular /\ pc \in {"done", "error"}) =>
          (skipped /\ pc = "error" /\ err = "ZeroDivisionError")

\* C6 witness: a call on a singular 3 x 3 matrix whose first column is not
\* zero has taken the zero-pivot branch and has failed.
C6_Witness ==
    /\ Singular
    /\ ArgSize = 3
    /\ \E i \in 1..3 : ArgMatrix[i][1] # 0
    /\ skipped
    /\ pc = "error"

\* the argument lists hold fewer entries than the copy loop reads
TooShort ==
    \/ \E i \in 1..ArgSize : Len(args0.matrix[i]) < ArgSize
    \/ Len(args0.vector) < ArgSize

\* the call's matrix and vector cut to the leading n x n block and n entries
Leading ==
    [matrix |-> [i \in 1..ArgSize |-> SubSeq(args0.matrix[i], 1, ArgSize)],
     vector |-> [i \in 1..ArgSize |-> args0.vector[i][1]]]

\* C7 (as amended): solve checks no dimension.  A row or a vector shorter
\* than the number of rows makes the copy loop fail with an IndexError
\* before any elimination step; longer rows and a longer vector are read
\* only up to the number of rows, and the call ends as the call on the
\* leading block does.
C7_ShortFailsLongIsCut ==
    /\ TooShort =>
          /\ pc \in {"call", "error"}
          /\ result = <<>>
          /\ pc = "error" => (err = "IndexError" /\ row = 0 /\ col = 0 /\ ~skipped)
    /\ (~TooShort /\ pc \in {"done", "error"}) =>
          \A L \in {Leading} :
              \A f \in {RunSolve(SolveStart(HeapOf(L.matrix, L.vector),
                                            RowRefs(L.matrix),
                                            VecRefs(L.matrix, L.vector)))} :
                  pc = f.pc /\ err = f.err /\ result = f.result

\* C7 witness: a call with two rows, the first of length 2 and another row
\* or the vector too short, has failed.
C7_Witness ==
    /\ ~WellFormed
    /\ TooShort
    /\ ArgSize = 2
    /\ Len(args0.matrix[1]) = 2
    /\ pc = "error"

\* C7 as stated: a call whose matrix is not square or whose vector has
\* another length than the matrix never returns a vector.
C7_AsStated == ~WellFormed => pc # "done"

\* C8: the lists passed to solve hold, in every state of the call, what
\* they held when it was called.
C8_ArgumentsUnchanged == ArgValues = args0

\* C8 witness: a call has returned after exchanging two rows of its
\* augmented matrix and changing a row in place.
C8_Witness ==
    /\ pc = "done"
    /\ \E r \in 1..size : augmented[r] # Len(matrix) + Len(vector) + r
    /\ \E r \in 1..size : heap[augmented[r]][1] # heap[matrix[r]][1]

RECURSIVE Binomial(_, _)
Binomial(n, k) ==
    IF k = 0 THEN 1 ELSE IF n = 0 THEN 0
    ELSE Binomial(n - 1, k - 1) + Binomial(n - 1, k)

RECURSIVE Factorial(_)
Factorial(n) == IF n = 0 THEN 1 ELSE n * Factorial(n - 1)

\* the k-th forward difference of y at its first entry
Difference(y, k) ==
    LET S[i \in (-1)..k] ==
            IF i = -1 THEN 0
            ELSE S[i - 1] + (IF (k - i) % 2 = 0 THEN 1 ELSE -1)
                              * Binomial(k, i) * y[i + 1]
    IN  S[k]

\* (x - 1)(x - 2)...(x - k)
Falling(x, k) ==
    LET P[j \in 0..k] == IF j = 0 THEN 1 ELSE P[j - 1] * (x - j)
    IN  P[k]

\* the polynomial of degree < Len(y) through (1, y[1]), ..., (n, y[n]) has
\* integer coefficients: its Newton coefficients Difference(y, k) / k! are
\* integers (the Newton basis is monic with integer coefficients)
IntegerCoefficients(y) ==
    \A k \in 0..(Len(y) - 1) : Difference(y, k) % Factorial(k) = 0

\* that polynomial at x, when it has integer coefficients
NewtonValue(y, x) ==
    LET S[k \in (-1)..(Len(y) - 1)] ==
            IF k = -1 THEN 0
            ELSE S[k - 1] + (Difference(y, k) \div Factorial(k)) * Falling(x, k)
    IN  S[Len(y) - 1]

\* C2 as stated: the function interpolate returns takes the value y[i - 1]
\* at every i in 1..n, for every list of integer samples.
C2_AsStated ==
    (pc = "applied" /\ var \in 1..Len(y_list)) => value = y_list[var]

NonZero(f) == \E i \in 1..Len(f) : f[i] # 0

\* the exact degree of a non-zero polynomial
Deg(f) == (CHOOSE i \in 1..Len(f) : f[i] # 0 /\ \A j \in (i + 1)..Len(f) : f[j] = 0) - 1

Cube == [i \in 1..(MaxDeg + 1) |-> IF i = 4 THEN 1 ELSE 0]

\* p(x) at the least x >= 1 where the polynomial p differs from f
FirstIncorrectTerm(f, p) ==
    InterpolatedFunc(p, Min({z \in 1..MaxScan : InterpolatedFunc(p, z) # FuncAt(f, z)}))

\* C5: when solution returns, ret is the sum over k = 1..order of P_k(x_k),
\* P_k being what interpolate returns for func(1), ..., func(k) and x_k the
\* least x >= 1 with P_k(x) # func(x); for func(n) = n^3 and order = 3 the
\* terms are 1, 15, 58 and ret is 74.
C5_SumOfFirstIncorrectTerms ==
    pc = "returned" =>
        /\ \A k \in 1..order :
              polynomials[k].coeffs = Interpolate([x \in 1..k |-> FuncAt(func, x)]).coeffs
        /\ fits = [k \in 1..order |-> FirstIncorrectTerm(func, polynomials[k])]
        /\ LET S[k \in 0..order] == IF k = 0 THEN 0 ELSE S[k - 1] + fits[k]
           IN  ret = S[order]
        /\ (func = Cube /\ order = 3) => (fits = <<1, 15, 58>> /\ ret = 74)

\* C5 witness: solution(n^3, 3) has returned 74.
C5_Witness ==
    /\ pc = "returned"
    /\ func = Cube
    /\ order = 3
    /\ ret = 74

\* the polynomial p, as applied, has the coefficients of f
SameCoefficients(p, f) ==
    /\ p.size <= Len(f)
    /\ \A x \in 1..p.size : RoundInt(p.coeffs[x]) = f[p.size - x + 1]
    /\ \A i \in (p.size + 1)..Len(f) : f[i] = 0

====
